---- MODULE Spec2Model ----
(***************************************************************************)
(* A model of spherical-cow's advancing front sphere packing               *)
(* (src/src/lib.rs): pack_spheres with init_spheres, identify_f and pairs, *)
(* and the contact analysis of PackedVolume.                               *)
(*                                                                         *)
(* Arithmetic.  The code computes in f32.  The model computes in exact     *)
(* arithmetic over the integers: a length is a whole number of model       *)
(* units, a centre is a point of the integer lattice, and every comparison *)
(* of a distance (a square root) with a sum of radii is made between the   *)
(* squares.  Rounding error of f32 is therefore outside the model.         *)
(*                                                                         *)
(* Container.  The Container trait is an input of pack_spheres.  The       *)
(* container of the model is the set of lattice spheres inside a box:      *)
(* contains(s) holds iff the centre of s is a lattice point and s does not *)
(* cross a face of the box.  With this container every sphere that is ever *)
(* placed has integer coordinates, and a solution of the tangency system   *)
(* that is not a lattice point is rejected by container.contains, exactly  *)
(* as the code rejects it.                                                 *)
(***************************************************************************)
EXTENDS Integers, Sequences, FiniteSets, TLC

VARIABLES
    pc,          \* position in pack_spheres: "start", "seed", "loop", "returned",
                 \* "panicked"; or the function of PackedVolume or pairs that ran
    init_radii,  \* the three radii drawn for the seed spheres
    spheres,     \* S, the placed spheres, in placement order
    front,       \* F, the advancing front
    new_radius,  \* radius of the next sphere to place
    twin,        \* a second run of the loop on the same inputs: [pc, spheres, front]
    input,       \* the argument of a function applied on its own
    output       \* the value it returned

vars == <<pc, init_radii, spheres, front, new_radius, twin, input, output>>

-----------------------------------------------------------------------------
(* Bounds and inputs *)

\* Half extent of the container box along x.
BoxX == 24
\* Half extent of the container box along y.
BoxY == 24
\* Half extent of the container box along z.
BoxZ == 22

\* The radii the size sampler may return.
Radii == {3, 5, 10, 12}

\* The values of a sampler that breaks its contract: it may return zero.
RadiiOrZero == {0, 3, 5, 12}

\* The radii of a sampler with fewer values, for the runs that are followed
\* to their end.
FewRadii == {3, 5, 12}

-----------------------------------------------------------------------------
(* Vectors and spheres *)

Sq(a) == a * a

Abs(a) == IF a < 0 THEN -a ELSE a

Sub(p, q) == <<p[1] - q[1], p[2] - q[2], p[3] - q[3]>>

Add(p, q) == <<p[1] + q[1], p[2] + q[2], p[3] + q[3]>>

Dot(p, q) == p[1] * q[1] + p[2] * q[2] + p[3] * q[3]

Cross(p, q) ==
    <<p[2] * q[3] - p[3] * q[2], p[3] * q[1] - p[1] * q[3], p[1] * q[2] - p[2] * q[1]>>

\* nalgebra::distance squared.
Distance2(p, q) == Dot(Sub(p, q), Sub(p, q))

\* The largest k with k * k <= m (m >= 0).
ISqrt(m) == CHOOSE k \in 0..m : Sq(k) <= m /\ Sq(k + 1) > m

Sphere(center, radius) == [center |-> center, radius |-> radius]

\* Sphere::overlaps: the distance of the centres is strictly less than the
\* sum of the radii.
Overlaps(a, b) ==
    LET sum == a.radius + b.radius
    IN  sum > 0 /\ Distance2(a.center, b.center) < Sq(sum)

\* Container::contains for the box of lattice spheres (the centre is a
\* lattice point by construction of the value).
Contains(s) ==
    /\ Abs(s.center[1]) + s.radius <= BoxX
    /\ Abs(s.center[2]) + s.radius <= BoxY
    /\ Abs(s.center[3]) + s.radius <= BoxZ

Range(seq) == {seq[i] : i \in DOMAIN seq}

\* Op(e), where e is evaluated once however often Op uses its argument.
Once(e, Op(_)) == CHOOSE y \in {Op(x) : x \in {e}} : TRUE

-----------------------------------------------------------------------------
(* pairs *)

\* The zip with subset taken from k instead of k + 1: set[k] is paired with
\* itself.
PairsOfKWithSelf(k, n) == [i \in 1..(n - k + 1) |-> <<k + i - 1, k>>]

\* The zip of subset = set[k+1..n] with repeat(&set[k]), as positions.
PairsOfK(k, n) == [i \in 1..(n - k) |-> <<k + i, k>>]

RECURSIVE PairsFrom(_, _)
\* The loop "for k in 0..n - 1" from position k on (positions count from 1).
PairsFrom(k, n) == IF k > n - 1 THEN <<>> ELSE PairsOfK(k, n) \o PairsFrom(k + 1, n)

\* pairs, as pairs of positions of the input.
PairPositions(n) ==
    IF n = 2 THEN << <<1, 2>> >>
    ELSE IF n > 2 THEN PairsFrom(1, n) ELSE <<>>

pairs(set) ==
    LET pos == PairPositions(Len(set))
    IN  [i \in DOMAIN pos |-> <<set[pos[i][1]], set[pos[i][2]]>>]

-----------------------------------------------------------------------------
(* init_spheres *)

\* The three seed spheres for radii >= 0, or <<>> when one of their
\* coordinates is not a whole number (or not a number at all): the container
\* contains no such sphere.
SeedSpheres(radii) ==
    LET radius_a == radii[1]
        radius_b == radii[2]
        radius_c == radii[3]
        distance_c == radius_a + radius_b
        distance_b == radius_a + radius_c
        distance_a == radius_c + radius_b
        \* x = xnum / (2 distance_c), y = sqrt(ysq) / (2 distance_c)
        xnum == Sq(distance_b) + Sq(distance_c) - Sq(distance_a)
        ysq == 4 * Sq(distance_c) * Sq(distance_b) - Sq(xnum)
        yroot == ISqrt(ysq)
        perimeter == distance_a + distance_b + distance_c
        \* incenter_x = ixnum / (2 perimeter), incenter_y = yroot / (2 perimeter)
        ixnum == 2 * distance_b * distance_c + xnum
    IN  IF \/ distance_c = 0     \* x is 0/0 or infinite
           \/ ysq < 0            \* y is the square root of a negative number
        THEN <<>>
        ELSE IF \/ Sq(yroot) # ysq
                \/ xnum % (2 * distance_c) # 0
                \/ yroot % (2 * distance_c) # 0
                \/ ixnum % (2 * perimeter) # 0
                \/ yroot % (2 * perimeter) # 0
        THEN <<>>
        ELSE LET x == xnum \div (2 * distance_c)
                 y == yroot \div (2 * distance_c)
                 incenter_x == ixnum \div (2 * perimeter)
                 incenter_y == yroot \div (2 * perimeter)
             IN  << Sphere(<<-incenter_x, -incenter_y, 0>>, radius_a),
                    Sphere(<<distance_c - incenter_x, -incenter_y, 0>>, radius_b),
                    Sphere(<<x - incenter_x, y - incenter_y, 0>>, radius_c) >>

\* The assertion of init_spheres: all three seeds are inside the container.
SeedsContained(radii) ==
    LET init == SeedSpheres(radii)
    IN  init # <<>> /\ \A i \in DOMAIN init : Contains(init[i])

-----------------------------------------------------------------------------
(* identify_f *)

\* The largest sum of two radii the sampler can produce.
MaxReach == 2 * (CHOOSE m \in Radii : \A r \in Radii : r <= m)

\* The lattice vectors of each length 0..MaxReach.
LatticeVectors ==
    [n \in 0..MaxReach |->
        UNION { UNION { LET zsq == Sq(n) - Sq(x) - Sq(y)
                            z == IF zsq < 0 THEN 0 ELSE ISqrt(zsq)
                        IN  IF zsq < 0 \/ Sq(z) # zsq THEN {}
                            ELSE {<<x, y, z>>, <<x, y, -z>>}
                        : y \in -n..n } : x \in -n..n }]

\* The lattice points r that solve the system identify_f solves,
\*     u . r = a,   v . r = b,   r . r + w . r = c,
\* with a, b and c as the code computes them from the three reference
\* spheres and the radius.  The code writes r = alpha u + beta v + gamma t
\* and finds gamma from a quadratic; it has two solutions only when the
\* discriminant is strictly positive, which is when a solution is off the
\* plane of the three centres (the two are mirror images in that plane).
\* Collinear centres make cross_uv zero, every value NaN, and the comparison
\* dot_wt_2 > value_4d false.
TangentCenters(s_1, s_2, s_3, radius) ==
    LET distance_14 == s_1.radius + radius
        distance_24 == s_2.radius + radius
        distance_34 == s_3.radius + radius
        vector_u == Sub(s_1.center, s_2.center)
        vector_v == Sub(s_1.center, s_3.center)
        cross_uv == Cross(vector_u, vector_v)
        \* distance_a * 2 |vector_u| and distance_b * 2 |vector_v|
        twice_a == Sq(distance_24) - Sq(distance_14)
                     + Dot(s_1.center, s_1.center) - Dot(s_2.center, s_2.center)
        twice_b == Sq(distance_34) - Sq(distance_14)
                     + Dot(s_1.center, s_1.center) - Dot(s_3.center, s_3.center)
        \* the same three equations for d = r - s_1.center, whose length is
        \* distance_14 by the third
        d_u == twice_a - 2 * Dot(vector_u, s_1.center)
        d_v == twice_b - 2 * Dot(vector_v, s_1.center)
    IN  IF cross_uv = <<0, 0, 0>> \/ Abs(distance_14) > MaxReach THEN {}
        ELSE { Add(s_1.center, d) :
                 d \in { e \in LatticeVectors[Abs(distance_14)] :
                            /\ 2 * Dot(vector_u, e) = d_u
                            /\ 2 * Dot(vector_v, e) = d_v
                            /\ Dot(e, cross_uv) # 0 } }

\* Accepted with "any" mistaken for "all": a candidate is rejected only when
\* it overlaps every sphere of V.
AcceptedUnlessAllOverlap(s_4, set_v) ==
    Contains(s_4) /\ ~ \A i \in DOMAIN set_v : Overlaps(set_v[i], s_4)

\* Accepted without the test of the container.
AcceptedUncontained(s_4, set_v) ==
    ~ \E i \in DOMAIN set_v : Overlaps(set_v[i], s_4)

\* Whether a candidate passes the two tests of identify_f.
Accepted(s_4, set_v) ==
    Contains(s_4) /\ ~ \E i \in DOMAIN set_v : Overlaps(set_v[i], s_4)

\* identify_f: the candidate of gamma_pos first, then the one of gamma_neg
\* (gamma is the component of r along cross_uv).
identify_f(s_1, s_2, s_3, set_v, radius) ==
    Once(TangentCenters(s_1, s_2, s_3, radius), LAMBDA roots :
    LET cross_uv == Cross(Sub(s_1.center, s_2.center), Sub(s_1.center, s_3.center))
        positive == {r \in roots : \A q \in roots : Dot(r, cross_uv) >= Dot(q, cross_uv)}
        negative == {r \in roots : \A q \in roots : Dot(r, cross_uv) <= Dot(q, cross_uv)}
        \* one lattice solution: its mirror image is not a lattice point
        f_pos == IF Cardinality(roots) = 2
                 THEN {r \in positive : Accepted(Sphere(r, radius), set_v)}
                 ELSE {}
        f_neg == IF Cardinality(roots) = 2
                 THEN {r \in negative : Accepted(Sphere(r, radius), set_v)}
                 ELSE {r \in roots : Accepted(Sphere(r, radius), set_v)}
        AsSeq(set) == IF set = {} THEN <<>> ELSE <<Sphere(CHOOSE r \in set : TRUE, radius)>>
    IN  AsSeq(f_pos) \o AsSeq(f_neg))

-----------------------------------------------------------------------------
(* pack_spheres *)

\* V := {s(c', r') in S : d(c0, c') <= r0 + r' + 2r}, without s0 itself.
SetV(S, curr_sphere, radius) ==
    SelectSeq(S, LAMBDA s_dash :
        /\ s_dash # curr_sphere
        /\ LET reach == curr_sphere.radius + s_dash.radius + 2 * radius
           IN  reach >= 0 /\ Distance2(curr_sphere.center, s_dash.center) <= Sq(reach))

\* One iteration's search for a place next to curr_sphere: the loop over
\* pairs(&set_v), which ends at the first pair whose set_f is not empty.
\* The value is that set_f, or <<>> when no pair has one.
FirstSetF(S, curr_sphere, radius) ==
    Once(SetV(S, curr_sphere, radius), LAMBDA set_v :
    Once(pairs(set_v), LAMBDA prs :
    LET SetF(p) == identify_f(curr_sphere, p[1], p[2], set_v, radius)
        RECURSIVE From(_)
        From(k) == IF k > Len(prs) THEN <<>>
                   ELSE Once(Once(prs[k], SetF), LAMBDA set_f :
                          IF set_f # <<>> THEN set_f ELSE From(k + 1))
    IN  From(1)))

\* remove_item mistaken for pop: the last item leaves, whatever x is.
RemoveLast(seq, x) == SubSeq(seq, 1, Len(seq) - 1)

\* remove_item that never finds its item.
RemoveNothing(seq, x) == seq

\* Vec::remove_item: the sequence without the first item equal to x.
RemoveItem(seq, x) ==
    IF x \notin Range(seq) THEN seq
    ELSE LET first == CHOOSE i \in DOMAIN seq : seq[i] = x /\ \A j \in 1..(i - 1) : seq[j] # x
         IN  [i \in 1..(Len(seq) - 1) |-> IF i < first THEN seq[i] ELSE seq[i + 1]]

\* The second run before it starts.
Idle == [pc |-> "idle", spheres |-> <<>>, front |-> <<>>]

Init ==
    /\ pc = "start"
    /\ init_radii = <<>>
    /\ spheres = <<>>
    /\ front = <<>>
    /\ new_radius = 0
    /\ twin = Idle
    /\ input = <<>>
    /\ output = <<>>

\* The three draws of init_radii from a sampler that returns a member of D.
SampleInitRadii(D) ==
    /\ pc = "start"
    /\ \E ra \in D, rb \in D, rc \in D : init_radii' = <<ra, rb, rc>>
    /\ pc' = "seed"
    /\ UNCHANGED <<spheres, front, new_radius, twin, input, output>>

\* init_spheres returns: S and F are the seeds and the next radius is drawn.
InitSpheres(D) ==
    /\ pc = "seed"
    /\ SeedsContained(init_radii)
    /\ spheres' = SeedSpheres(init_radii)
    /\ front' = SeedSpheres(init_radii)
    /\ \E r \in D : new_radius' = r
    /\ pc' = "loop"
    /\ UNCHANGED <<init_radii, twin, input, output>>

\* The assertion of init_spheres fails: the thread panics.
InitSpheresPanic ==
    /\ pc = "seed"
    /\ ~ SeedsContained(init_radii)
    /\ pc' = "panicked"
    /\ UNCHANGED <<init_radii, spheres, front, new_radius, twin, input, output>>

\* An iteration that finds a place: a candidate of the first pair that has
\* one joins F and S, and the next radius is drawn.
Accept(D) ==
    /\ pc = "loop"
    /\ front # <<>>
    /\ \E i \in DOMAIN front :
         \E set_f \in {FirstSetF(spheres, front[i], new_radius)} :
             /\ set_f # <<>>
             /\ \E j \in DOMAIN set_f :
                  /\ front' = Append(front, set_f[j])
                  /\ spheres' = Append(spheres, set_f[j])
    /\ \E r \in D : new_radius' = r
    /\ UNCHANGED <<pc, init_radii, twin, input, output>>

\* An iteration that finds none: the chosen sphere leaves the front.
Retire ==
    /\ pc = "loop"
    /\ front # <<>>
    /\ \E i \in DOMAIN front :
         /\ FirstSetF(spheres, front[i], new_radius) = <<>>
         /\ front' = RemoveItem(front, front[i])
    /\ UNCHANGED <<pc, init_radii, spheres, new_radius, twin, input, output>>

\* The front is empty: pack_spheres returns S.
Return ==
    /\ pc = "loop"
    /\ front = <<>>
    /\ pc' = "returned"
    /\ UNCHANGED <<init_radii, spheres, front, new_radius, twin, input, output>>

Next ==
    \/ SampleInitRadii(Radii)
    \/ InitSpheres(Radii)
    \/ InitSpheresPanic
    \/ Accept(Radii)
    \/ Retire
    \/ Return

Spec == Init /\ [][Next]_vars

FairNext ==
    \/ SampleInitRadii(FewRadii)
    \/ InitSpheres(FewRadii)
    \/ InitSpheresPanic
    \/ Accept(FewRadii)
    \/ Retire
    \/ Return

\* pack_spheres is one thread that never waits: a step that can be taken is
\* taken.
FairSpec == Init /\ [][FairNext]_vars /\ WF_vars(FairNext)

-----------------------------------------------------------------------------
(* pack_spheres with a size distribution that returns a radius of zero *)

BadSamplerNext ==
    \/ SampleInitRadii(RadiiOrZero)
    \/ InitSpheres(RadiiOrZero)
    \/ InitSpheresPanic
    \/ Accept(RadiiOrZero)
    \/ Retire
    \/ Return

BadSamplerSpec == Init /\ [][BadSamplerNext]_vars

-----------------------------------------------------------------------------
(* Two runs of pack_spheres on the same container and the same radii *)

\* The size distribution returns the same radius at every draw after the
\* seeds, so both runs see the same sequence of radii whatever they place.
AcceptSame == Accept({new_radius})

\* The first run has returned; the second starts from the same seeds.
TwinStart ==
    /\ pc = "returned"
    /\ twin.pc = "idle"
    /\ twin' = [pc |-> "loop", spheres |-> SeedSpheres(init_radii),
                front |-> SeedSpheres(init_radii)]
    /\ UNCHANGED <<pc, init_radii, spheres, front, new_radius, input, output>>

TwinAccept ==
    /\ twin.pc = "loop"
    /\ twin.front # <<>>
    /\ \E i \in DOMAIN twin.front :
         \E set_f \in {FirstSetF(twin.spheres, twin.front[i], new_radius)} :
             /\ set_f # <<>>
             /\ \E j \in DOMAIN set_f :
                  twin' = [twin EXCEPT !.front = Append(@, set_f[j]),
                                       !.spheres = Append(@, set_f[j])]
    /\ UNCHANGED <<pc, init_radii, spheres, front, new_radius, input, output>>

TwinRetire ==
    /\ twin.pc = "loop"
    /\ twin.front # <<>>
    /\ \E i \in DOMAIN twin.front :
         /\ FirstSetF(twin.spheres, twin.front[i], new_radius) = <<>>
         /\ twin' = [twin EXCEPT !.front = RemoveItem(@, twin.front[i])]
    /\ UNCHANGED <<pc, init_radii, spheres, front, new_radius, input, output>>

TwinReturn ==
    /\ twin.pc = "loop"
    /\ twin.front = <<>>
    /\ twin' = [twin EXCEPT !.pc = "returned"]
    /\ UNCHANGED <<pc, init_radii, spheres, front, new_radius, input, output>>

TwinNext ==
    \/ SampleInitRadii(Radii)
    \/ InitSpheres(Radii)
    \/ InitSpheresPanic
    \/ AcceptSame
    \/ Retire
    \/ Return
    \/ TwinStart
    \/ TwinAccept
    \/ TwinRetire
    \/ TwinReturn

TwinSpec == Init /\ [][TwinNext]_vars

-----------------------------------------------------------------------------
(* pairs on its own *)

\* The longest input of pairs.
MaxLen == 5

\* The inputs of pairs: sequences of distinct spheres.
PairsInputs ==
    LET items == {Sphere(<<k, 0, 0>>, 1) : k \in 1..MaxLen}
    IN  UNION { {s \in [1..n -> items] : \A i, j \in 1..n : i # j => s[i] # s[j]}
                : n \in 0..MaxLen }

PairsInit ==
    /\ pc = "pairs"
    /\ input \in PairsInputs
    /\ output = <<>>
    /\ init_radii = <<>>
    /\ spheres = <<>>
    /\ front = <<>>
    /\ new_radius = 0
    /\ twin = Idle

CallPairs ==
    /\ pc = "pairs"
    /\ output' = pairs(input)
    /\ pc' = "pairs returned"
    /\ UNCHANGED <<init_radii, spheres, front, new_radius, twin, input>>

PairsNext == CallPairs

PairsSpec == PairsInit /\ [][PairsNext]_vars

-----------------------------------------------------------------------------
(* PackedVolume: contacts, coordination number and fabric tensor *)

\* Here a model unit is 0.00025, and the tolerance 0.001 of the contact test
\* is 4 units.
ContactTol == 4

\* |distance(a, b) - (a.radius + b.radius)| < 0.001, compared between squares.
InContact(a, b) ==
    LET sum == a.radius + b.radius
        d2 == Distance2(a.center, b.center)
    IN  /\ d2 < Sq(sum + ContactTol)
        /\ (sum - ContactTol < 0 \/ d2 > Sq(sum - ContactTol))

sphere_contacts(S, sphere_idx) ==
    SelectSeq(S, LAMBDA sphere : InContact(S[sphere_idx], sphere))

sphere_contacts_count(S, sphere_idx) ==
    Cardinality({i \in DOMAIN S : InContact(S[sphere_idx], S[i])})

RECURSIVE GCD(_, _)
GCD(a, b) == IF b = 0 THEN a ELSE GCD(b, a % b)

\* A float is a fraction <<numerator, denominator>> in lowest terms with a
\* positive denominator, or NaN.  In the functions below a division by zero
\* is always 0/0.
NaN == <<0, 0>>

Frac(n, d) ==
    IF d = 0 THEN NaN
    ELSE LET g == GCD(Abs(n), Abs(d))
         IN  IF d < 0 THEN <<(-n) \div g, (-d) \div g>> ELSE <<n \div g, d \div g>>

Plus(a, b) ==
    IF a = NaN \/ b = NaN THEN NaN ELSE Frac(a[1] * b[2] + b[1] * a[2], a[2] * b[2])

Over(a, m) == IF a = NaN THEN NaN ELSE Frac(a[1], a[2] * m)

RECURSIVE SumTo(_, _)
\* f[1] + ... + f[n], from 0.
SumTo(f, n) == IF n = 0 THEN Frac(0, 1) ELSE Plus(SumTo(f, n - 1), f[n])

coordination_number(S) ==
    LET RECURSIVE Coordinations(_)
        Coordinations(idx) ==
            IF idx = 0 THEN 0 ELSE Coordinations(idx - 1) + sphere_contacts_count(S, idx)
    IN  Frac(Coordinations(Len(S)), Len(S))

\* The closure phi of fabric_tensor.  n_pc[i] * n_pc[j] is
\* vec_n_pc[i] * vec_n_pc[j] / |vec_n_pc|^2.
phi(S, i, j) ==
    LET SumVec(idx) ==
            LET p_c == sphere_contacts(S, idx)
            IN  SumTo([c \in DOMAIN p_c |->
                         LET vec_n_pc == Cross(S[idx].center, p_c[c].center)
                         IN  Frac(vec_n_pc[i] * vec_n_pc[j], Dot(vec_n_pc, vec_n_pc))],
                      Len(p_c))
        sum_all == SumTo([idx \in DOMAIN S |->
                            Over(SumVec(idx), Len(sphere_contacts(S, idx)))],
                         Len(S))
    IN  Over(sum_all, Len(S))

fabric_tensor(S) == [r \in 1..3 |-> [c \in 1..3 |-> phi(S, r, c)]]

\* The largest packing handed to from_vec.
MaxPacking == 3

\* The spheres of the packings handed to from_vec: radii of 1, 2 and 8
\* units at three corners of a grid of 16 units.
AnalysisSpheres ==
    {Sphere(c, r) : c \in {<<16, 0, 0>>, <<16, 16, 0>>, <<16, 0, 16>>}, r \in {1, 2, 8}}

\* PackedVolume::from_vec(spheres, container).
AnalysisInit ==
    /\ pc = "from_vec"
    /\ spheres \in UNION {[1..n -> AnalysisSpheres] : n \in 1..MaxPacking}
    /\ input = <<>>
    /\ output = <<>>
    /\ init_radii = <<>>
    /\ front = <<>>
    /\ new_radius = 0
    /\ twin = Idle

SphereContacts ==
    /\ pc = "from_vec"
    /\ \E sphere_idx \in DOMAIN spheres :
         /\ input' = sphere_idx
         /\ output' = sphere_contacts(spheres, sphere_idx)
    /\ pc' = "sphere_contacts"
    /\ UNCHANGED <<init_radii, spheres, front, new_radius, twin>>

SphereContactsCount ==
    /\ pc = "from_vec"
    /\ \E sphere_idx \in DOMAIN spheres :
         /\ input' = sphere_idx
         /\ output' = sphere_contacts_count(spheres, sphere_idx)
    /\ pc' = "sphere_contacts_count"
    /\ UNCHANGED <<init_radii, spheres, front, new_radius, twin>>

CoordinationNumber ==
    /\ pc = "from_vec"
    /\ output' = coordination_number(spheres)
    /\ pc' = "coordination_number"
    /\ UNCHANGED <<init_radii, spheres, front, new_radius, twin, input>>

FabricTensor ==
    /\ pc = "from_vec"
    /\ output' = fabric_tensor(spheres)
    /\ pc' = "fabric_tensor"
    /\ UNCHANGED <<init_radii, spheres, front, new_radius, twin, input>>

AnalysisNext ==
    \/ SphereContacts
    \/ SphereContactsCount
    \/ CoordinationNumber
    \/ FabricTensor

AnalysisSpec == AnalysisInit /\ [][AnalysisNext]_vars

-----------------------------------------------------------------------------
(* Properties *)

\* seq without its i-th item.
WithoutAt(seq, i) == [j \in 1..(Len(seq) - 1) |-> IF j < i THEN seq[j] ELSE seq[j + 1]]

\* C1: no two placed spheres overlap: for all positions i # j of S the
\* distance of the centres is at least the sum of the radii, in every state
\* of pack_spheres and in the vector it returns.
C1_NonOverlap ==
    \A i, j \in DOMAIN spheres :
        i # j => Distance2(spheres[i].center, spheres[j].center)
                    >= Sq(spheres[i].radius + spheres[j].radius)

\* A sphere has been accepted and the front holds a sphere whose neighbour
\* set V leaves a placed sphere out and still yields a candidate.
C1_Witness ==
    /\ pc = "loop"
    /\ Len(spheres) > 3
    /\ \E i \in DOMAIN front :
         /\ Len(SetV(spheres, front[i], new_radius)) < Len(spheres) - 1
         /\ FirstSetF(spheres, front[i], new_radius) # <<>>

\* C2: every sphere of S, seed or accepted candidate, is inside the
\* container, in every state and in the returned packing.
C2_Contained == \A i \in DOMAIN spheres : Contains(spheres[i])

\* A packing with accepted candidates has been returned.
C2_Witness == pc = "returned" /\ Len(spheres) > 3

\* C3: when a seed sphere is not inside the container, construction ends
\* with a SeedUnplaceable error value: it neither panics nor returns spheres.
C3_SeedFailureReported ==
    (pc \notin {"start", "seed"} /\ ~ SeedsContained(init_radii)) => pc = "SeedUnplaceable"

\* C4: a radius <= 0 from the size distribution stops pack_spheres with an
\* InvalidSample error where it is drawn: none is a seed radius or the radius
\* of the next sphere once the loop runs, and no sphere of S has one.
C4_InvalidSampleRejected ==
    pc \in {"loop", "returned"} =>
        /\ \A i \in DOMAIN init_radii : init_radii[i] > 0
        /\ new_radius > 0
        /\ \A i \in DOMAIN spheres : spheres[i].radius > 0

\* C5: the frontier loop terminates: every iteration appends one sphere to
\* S or removes one sphere from F, and a run that enters the loop reaches an
\* empty front and returns.
C5_Termination ==
    /\ [][(pc = "loop" /\ pc' = "loop") =>
            \/ Len(spheres') = Len(spheres) + 1 /\ Len(front') = Len(front) + 1
            \/ spheres' = spheres /\ Len(front') = Len(front) - 1]_vars
    /\ (pc = "loop") ~> (pc = "returned" /\ front = <<>>)

\* The loop has run, accepted a candidate, emptied the front and returned.
C5_Witness == pc = "returned" /\ front = <<>> /\ Len(spheres) > 4

\* C6: pairs returns n (n - 1) / 2 pairs for an input of n >= 2 spheres and
\* none for a shorter one; every two distinct positions of the input are
\* paired exactly once, and no position is paired with itself.
C6_PairLaw ==
    pc = "pairs returned" =>
        LET n == Len(input)
        IN  /\ Len(output) = IF n >= 2 THEN (n * (n - 1)) \div 2 ELSE 0
            /\ n = 2 => Len(output) = 1
            /\ \A i, j \in 1..n :
                 i < j => Cardinality({k \in DOMAIN output :
                                        {output[k][1], output[k][2]} = {input[i], input[j]}}) = 1
            /\ \A k \in DOMAIN output : output[k][1] # output[k][2]

\* pairs has returned the pairs of an input of more than two spheres.
C6_Witness == pc = "pairs returned" /\ Len(input) > 2 /\ Len(output) > 2

\* C7: two runs of pack_spheres on the same container with the same sequence
\* of radii return the same spheres in the same order.
C7_Reproducible ==
    (pc = "returned" /\ twin.pc = "returned") => twin.spheres = spheres

\* The contacts of sphere i with the other spheres of the packing.
OtherContacts(S, i) == {j \in DOMAIN S \ {i} : InContact(S[i], S[j])}

\* C8: in a packing of spheres of positive radius, sphere_contacts(i) holds
\* the spheres j # i in contact with sphere i, and never sphere i, and
\* sphere_contacts_count(i) is their number.
C8_SelfExcluded ==
    /\ pc = "sphere_contacts" =>
         Len(output) = Cardinality(OtherContacts(spheres, input))
    /\ pc = "sphere_contacts_count" =>
         output = Cardinality(OtherContacts(spheres, input))

\* C9: the trace of the fabric tensor is 1 for a packing of spheres that do
\* not overlap, none in contact with itself, with at least one contact; some
\* spheres may have no contact.
C9_TraceIsOne ==
    (/\ pc = "fabric_tensor"
     /\ \A i, j \in DOMAIN spheres : i # j => ~ Overlaps(spheres[i], spheres[j])
     /\ \A i \in DOMAIN spheres : ~ InContact(spheres[i], spheres[i])
     /\ \E i \in DOMAIN spheres : OtherContacts(spheres, i) # {})
        => Plus(Plus(output[1][1], output[2][2]), output[3][3]) = Frac(1, 1)

====
